---- MODULE Spec2Model ----
(***************************************************************************)
(* A model of complete_evaluation.py (HPI-CH/PROPEL): main(args), the      *)
(* per-label evaluation-and-aggregation loop.                              *)
(*                                                                         *)
(* The state is main's local variables, the files it writes and what it    *)
(* prints.  One action models one block of main; pc is main's position.    *)
(* Data frames are modelled by their column sets (features), label names   *)
(* are sequences of characters (so that str.replace is computed), and the  *)
(* collaborators that are imported from other modules                      *)
(* (get_preprocessed_data, get_classification_model_grid,                  *)
(* evaluate_single_model, all_classification_metrics_list) are modelled    *)
(* from their description in the specification: deterministic functions    *)
(* of their arguments whose results are kept as symbolic terms.            *)
(* The arguments main hands on unchanged from the command line (cv_splits, *)
(* select_features, shap_eval) are left out of the evaluator's call, and   *)
(* the assert statement of line 64 is taken as executed.                   *)
(***************************************************************************)
EXTENDS Integers, Sequences, FiniteSets, TLC

\* ------------------------------------------------------------------ bounds

\* Most label columns of Y, most candidates of the model catalog.
MaxLabels == 2
MaxModels == 3

\* ------------------------------------------------------------ input domains

\* Feature column names the preprocessing may produce.
Features == {"age", "bmi"}

\* Label column names, as sequences of characters.
LabelNames == { <<"a", " ", "b">>, <<"a", "_", "b">>, <<"c">> }

\* Estimator class names of the catalog.
ClassList == <<"LogisticRegression", "RandomForestClassifier", "SVC">>

\* --seed values (42 is the default).
Seeds == {7, 42}

\* Wall clock readings (datetime.now()) at the start of a run.
Times == {1, 2}

\* choices of --balancing_option
BalancingOptions == {"class_weight", "random_oversampling", "SMOTE", "ADASYN", "none"}

\* The metric enumeration; it lists 'confusion_matrix' and 'mcc'.
all_classification_metrics_list == <<"f1", "confusion_matrix", "mcc">>

\* ------------------------------------------------------------------ helpers

Range(s) == { s[i] : i \in 1..Len(s) }

NoDup(s) == \A i, j \in 1..Len(s) : s[i] = s[j] => i = j

SeqsUpTo(S, n) == UNION { [1..m -> S] : m \in 0..n }

\* An insertion-ordered dict: keys in the order of first insertion.
EmptyDict == [keys |-> <<>>, vals |-> <<>>]

DictKeys(d) == Range(d.keys)

DictSet(d, key, v) ==
    IF key \in DictKeys(d)
    THEN [keys |-> d.keys, vals |-> [x \in DictKeys(d) |-> IF x = key THEN v ELSE d.vals[x]]]
    ELSE [keys |-> Append(d.keys, key),
          vals |-> [x \in DictKeys(d) \cup {key} |-> IF x = key THEN v ELSE d.vals[x]]]

\* The catalogs of at most n candidates, one of each class of catalogs that
\* differ only by a renaming of the estimator classes: a class appears first
\* only after the classes listed before it.
Catalogs(n) ==
    { s \in SeqsUpTo(Range(ClassList), n) :
        \A i \in 1..Len(s) : \A c \in 2..Len(ClassList) :
            s[i] = ClassList[c] => \E h \in 1..(i - 1) : s[h] = ClassList[c - 1] }

\* str.replace(' ', '_')
replace(s) == [i \in 1..Len(s) |-> IF s[i] = " " THEN "_" ELSE s[i]]

\* -------------------------------------------------------------------- state

VARIABLES
    args,                \* the parsed command line; out_dir is rewritten by main
    dataset,             \* what parsing and preprocessing yield for this dataset
    class_names,         \* the estimator classes of the catalog, in order
    now,                 \* datetime.now() at the start of the run
    pc,                  \* main's position
    error,               \* the exception that ended the run, or None
    X, Y, X_val,         \* feature columns, label columns, external feature columns
    printed,             \* the dropped-column messages printed
    all_test_metric_dfs, \* metric -> frame (model rows, label columns)
    best_parameters,     \* what main appended to best_parameters.txt
    k, label_col,        \* the label loop
    split,               \* X_train, y_train, X_test, y_test of the label
    model_grid, j, model,\* the candidate loop; model is <<>> while unbound
    all_model_metrics,   \* class name -> (val_metrics, test_metrics, curves)
    json_files,          \* label -> the all_model_metrics.json written for it
    csv_files,           \* metric -> the data_frames/<metric>.csv as last written
    plots,               \* per label, the model names each plotting call was given
    trace,               \* history: the steps of the run, in order
    run,                 \* 1, or 2 for a repeated run
    first                \* history: what the first of two runs did

vars == <<args, dataset, class_names, now, pc, error, X, Y, X_val, printed,
          all_test_metric_dfs, best_parameters, k, label_col, split, model_grid,
          j, model, all_model_metrics, json_files, csv_files, plots, trace, run, first>>

\* ------------------------------------------------- imported collaborators

None == "None"
NaN == <<"NaN">>

\* src.models.get_classification_model_grid(class_weight, seed): the ordered
\* catalog; every estimator is built with the class weight and the seed.
get_classification_model_grid(classes, class_weight, seed) ==
    [i \in 1..Len(classes) |->
        [cls |-> classes[i], pos |-> i, class_weight |-> class_weight, random_state |-> seed]]

\* model.__class__.__name__
ClassName(m) == m.cls

\* The resampling options of the evaluator's balancing step.
ResamplingOptions == {"random_oversampling", "SMOTE", "ADASYN"}

\* src.evaluate.evaluate_single_model raises when the balancing technique
\* cannot be applied to the label's class distribution.
EvaluatorRaises(call, too_few) ==
    call.sample_balancing \in ResamplingOptions /\ call.y_train.label \in too_few

\* What the evaluator's result depends on: every argument but the output
\* directory, which only names where its files go.
ResultKey(call) ==
    <<call.model, call.X_train, call.y_train, call.X_test, call.y_test,
      call.sample_balancing, call.seed>>

\* src.evaluate.evaluate_single_model(...) -> (val_metrics, test_metrics, curves):
\* a deterministic function of its arguments; both metric dicts hold every
\* metric of the enumeration.
evaluate_single_model(call) ==
    [val_metrics  |-> [m \in Range(all_classification_metrics_list) |-> <<"val", m, ResultKey(call)>>],
     test_metrics |-> [m \in Range(all_classification_metrics_list) |-> <<"test", m, ResultKey(call)>>],
     curves       |-> <<"curves", ResultKey(call)>>]

\* sklearn.model_selection.train_test_split(X, y, test_size, random_state,
\* shuffle=True, stratify=y): both parts keep the columns of X; the rows of a
\* part are a function of the data, the fraction and the random state, and y
\* is cut at the same rows as X.
train_test_split(Xcols, label, test_size, random_state) ==
    [X_train |-> [columns |-> Xcols, rows |-> <<"train", test_size, random_state>>],
     y_train |-> [label |-> label, rows |-> "train"],
     X_test  |-> [columns |-> Xcols, rows |-> <<"test", test_size, random_state>>],
     y_test  |-> [label |-> label, rows |-> "test"]]

\* ------------------------------------------------------------ main's pieces

\* args.out_dir after lines 25-30: the start time is part of the name.
OutDir(base, time, seed) == [base |-> base, time |-> time, seed |-> seed]

\* Mutant: the difference taken the wrong way round.
ExtraColumnsReversed(xval, x) == x \ xval

\* X_val.columns.difference(X.columns)
ExtraColumns(xval, x) == xval \ x

\* Mutant: the extra columns are printed and kept.
DropNothing(xval, x) == xval

\* X_val.drop(set(X_val.columns.difference(X.columns)), axis=1)
DropExtraColumns(xval, x) == xval \ ExtraColumns(xval, x)

\* Mutant: the assert is gone.
NoColumnCheck(x, xval) == TRUE

\* assert len(X.columns.difference(X_val.columns)) == 0
TrainColumnsPresent(x, xval) == Cardinality(x \ xval) = 0

\* Mutant: the split is seeded from the clock.
SplitSeedFromClock(seed) == now

\* random_state=seed of the split, seed=args.seed of the catalog, seed=seed of
\* the evaluator
SplitSeed(seed) == seed
CatalogSeed(a) == a.seed
EvaluatorSeed(seed) == seed

\* 'balanced' if args.balancing_option == 'class_weight' else None
ClassWeight(a) == IF a.balancing_option = "class_weight" THEN "balanced" ELSE None

\* An empty pd.DataFrame(dtype=np.float64)
EmptyFrame == [index |-> <<>>, columns |-> <<>>, at |-> <<>>]

\* df.loc[row, col] = value, with enlargement: a missing row or column is
\* appended and its other cells are NaN.
LocSet(df, row, col, value) ==
    LET idx  == IF row \in Range(df.index) THEN df.index ELSE Append(df.index, row)
        cols == IF col \in Range(df.columns) THEN df.columns ELSE Append(df.columns, col)
    IN  [index |-> idx, columns |-> cols,
         at |-> [p \in Range(idx) \X Range(cols) |->
                    IF p = <<row, col>> THEN value
                    ELSE IF p[1] \in Range(df.index) /\ p[2] \in Range(df.columns)
                         THEN df.at[p] ELSE NaN]]

\* Mutant: a frame for the confusion matrix too.
FramesOfAllMetrics ==
    [m \in Range(all_classification_metrics_list) |-> EmptyFrame]

\* {metric: pd.DataFrame(...) for metric in all_metrics_list if metric != 'confusion_matrix'}
InitialFrames ==
    [m \in Range(all_classification_metrics_list) \ {"confusion_matrix"} |-> EmptyFrame]

\* Mutant: a class name already stored keeps its first result.
StoreFirstResult(d, name, result) ==
    IF name \in DictKeys(d) THEN d ELSE DictSet(d, name, result)

\* all_model_metrics[str(model.__class__.__name__)] = (val_metrics, test_metrics, curves)
StoreResult(d, name, result) == DictSet(d, name, result)

\* all_model_metrics = {} at the start of a label
FreshModelMetrics == EmptyDict

\* {model_name: (val_metrics[metric_name], test_metrics[metric_name]) for ... in all_model_metrics.items()}
MetricData(amm, metric_name) ==
    [keys |-> amm.keys,
     vals |-> [n \in DictKeys(amm) |->
                 <<amm.vals[n].val_metrics[metric_name], amm.vals[n].test_metrics[metric_name]>>]]

\* Mutant: the confusion matrix of the last model only.
ConfusionDataOfLastModel(amm, metric_name) ==
    LET n == amm.keys[Len(amm.keys)]
    IN  [keys |-> <<n>>,
         vals |-> [x \in {n} |->
                     <<<<"tolist", amm.vals[n].val_metrics[metric_name]>>,
                       <<"tolist", amm.vals[n].test_metrics[metric_name]>>>>]]

\* the 'confusion_matrix' entry: the same pairs, converted with tolist()
ConfusionData(amm, metric_name) ==
    [keys |-> amm.keys,
     vals |-> [n \in DictKeys(amm) |->
                 <<<<"tolist", amm.vals[n].val_metrics[metric_name]>>,
                   <<"tolist", amm.vals[n].test_metrics[metric_name]>>>>]]

\* json_metric_data after the loop over the last model's metric names
JsonMetricData(amm, metric_names) ==
    [m \in metric_names |->
        IF m = "confusion_matrix" THEN ConfusionData(amm, m) ELSE MetricData(amm, m)]

\* The frame of one metric after
\*   for model_name, test_data in ...: all_test_metric_dfs[metric].loc[model_name, col] = value
RECURSIVE SaveColumn(_, _, _, _, _)
SaveColumn(df, names, amm, metric, col) ==
    IF names = <<>> THEN df
    ELSE SaveColumn(LocSet(df, Head(names), col, amm.vals[Head(names)].test_metrics[metric]),
                    Tail(names), amm, metric, col)

\* The column a label's values are written to
ColumnOf(label) == replace(label)

\* Mutant: every label starts from empty frames.
SaveResultsInFreshDF(dfs, amm, label) ==
    [m \in DOMAIN dfs |->
        IF m = "confusion_matrix" THEN dfs[m]
        ELSE SaveColumn(EmptyFrame, amm.keys, amm, m, ColumnOf(label))]

\* all_test_metric_dfs after the 'save results in DF' loops of one label: the
\* loops go through the models and, for each, through its test metrics but
\* 'confusion_matrix'; the frames of different metrics do not touch.
SaveResultsInDF(dfs, amm, label) ==
    [m \in DOMAIN dfs |->
        IF m = "confusion_matrix" THEN dfs[m]
        ELSE SaveColumn(dfs[m], amm.keys, amm, m, ColumnOf(label))]

\* Mutant: the loop ends one candidate early.
LoopDoneEarly(i, grid) == i >= Len(grid)

\* The candidate loop has gone through the whole grid.
LoopDone(i, grid) == i > Len(grid)

\* ------------------------------------------------------------------- inputs

Datasets ==
    { d \in [X : SUBSET Features \ {{}}, X_val : SUBSET Features,
             Y : SeqsUpTo(LabelNames, MaxLabels), too_few : SUBSET LabelNames] :
        /\ Len(d.Y) >= 1 /\ NoDup(d.Y)
        /\ d.too_few \subseteq Range(d.Y) /\ Cardinality(d.too_few) <= 1 }

\* The state main starts in.
Start ==
    /\ pc = "setup" /\ error = None
    /\ X = {} /\ Y = <<>> /\ X_val = {}
    /\ printed = <<>>
    /\ all_test_metric_dfs = <<>>
    /\ best_parameters = <<>>
    /\ k = 0 /\ label_col = <<>>
    /\ split = None
    /\ model_grid = <<>> /\ j = 0 /\ model = <<>>
    /\ all_model_metrics = EmptyDict
    /\ json_files = <<>> /\ csv_files = <<>>
    /\ plots = <<>>
    /\ trace = <<>>

\* Every command line, dataset and catalog within the bounds.
Inputs ==
    /\ args \in [seed : Seeds, external_testset : BOOLEAN,
                 balancing_option : BalancingOptions, test_fraction : {"0.2"},
                 out_dir : {None}]
    /\ dataset \in Datasets
    \* no external data is read without --external_testset; the class
    \* distribution matters to the resampling options only
    /\ ~args.external_testset => dataset.X_val = {}
    /\ args.balancing_option \notin ResamplingOptions => dataset.too_few = {}
    /\ class_names \in Catalogs(MaxModels)
    /\ now = 1
    /\ run = 1 /\ first = None
    /\ Start

\* A run with the default seed.
Init == Inputs /\ args.seed = 42

\* ------------------------------------------------------------------ actions

\* lines 22-50: seeds, output directory, parsing and preprocessing
Setup ==
    /\ pc = "setup"
    /\ args' = [args EXCEPT !.out_dir = OutDir(args.out_dir, now, args.seed)]
    /\ X' = dataset.X
    /\ Y' = dataset.Y
    /\ pc' = IF args.external_testset THEN "reconcile" ELSE "header"
    /\ UNCHANGED <<dataset, class_names, now, error, X_val, printed, all_test_metric_dfs,
                   best_parameters, k, label_col, split, model_grid, j, model,
                   all_model_metrics, json_files, csv_files, plots, trace, run, first>>

\* lines 53-64: the external set is preprocessed, its extra columns are
\* printed and dropped, and the assert ends the run with an AssertionError
\* when a training column is missing from it
Reconcile ==
    /\ pc = "reconcile"
    /\ printed' = Append(printed, ExtraColumns(dataset.X_val, X))
    /\ X_val' = DropExtraColumns(dataset.X_val, X)
    /\ IF TrainColumnsPresent(X, X_val')
       THEN pc' = "header" /\ error' = error
       ELSE pc' = "aborted" /\ error' = "AssertionError"
    /\ UNCHANGED <<args, dataset, class_names, now, X, Y, all_test_metric_dfs,
                   best_parameters, k, label_col, split, model_grid, j, model,
                   all_model_metrics, json_files, csv_files, plots, trace, run, first>>

\* lines 65-72: the metric frames, and the trial header of best_parameters.txt
Header ==
    /\ pc = "header"
    /\ all_test_metric_dfs' = InitialFrames
    /\ best_parameters' = Append(best_parameters, <<"New Trial", now, args>>)
    /\ trace' = Append(trace, [op |-> "header"])
    /\ k' = 1
    /\ pc' = IF Len(Y) >= 1 THEN "label" ELSE "done"
    /\ UNCHANGED <<args, dataset, class_names, now, error, X, Y, X_val, printed,
                   label_col, split, model_grid, j, model, all_model_metrics,
                   json_files, csv_files, plots, run, first>>

\* lines 74-100: the next label: its log entry, its split, the empty result
\* collection and the model grid
BeginLabel ==
    /\ pc = "label"
    /\ label_col' = Y[k]
    /\ best_parameters' = Append(best_parameters, <<"label", Y[k]>>)
    /\ split' = IF ~args.external_testset
                THEN train_test_split(X, Y[k], args.test_fraction, SplitSeed(args.seed))
                ELSE [X_train |-> [columns |-> X, rows |-> <<"X">>],
                      y_train |-> [label |-> Y[k], rows |-> "X"],
                      X_test  |-> [columns |-> X_val, rows |-> <<"X_val">>],
                      y_test  |-> [label |-> Y[k], rows |-> "X_val"]]
    /\ all_model_metrics' = FreshModelMetrics
    /\ model_grid' = get_classification_model_grid(class_names, ClassWeight(args), CatalogSeed(args))
    /\ j' = 1
    /\ trace' = Append(trace, [op |-> "split", label |-> Y[k]])
    /\ pc' = "evaluate"
    /\ UNCHANGED <<args, dataset, class_names, now, error, X, Y, X_val, printed,
                   all_test_metric_dfs, k, model, json_files, csv_files, plots, run, first>>

\* The arguments of the j-th call of evaluate_single_model for this label
Call ==
    [model |-> model_grid[j], X_train |-> split.X_train, y_train |-> split.y_train,
     X_test |-> split.X_test, y_test |-> split.y_test, out_dir |-> args.out_dir,
     sample_balancing |-> args.balancing_option, seed |-> EvaluatorSeed(args.seed)]

\* lines 101-110, one turn of the candidate loop: the evaluator returns and
\* its result is stored under the estimator's class name
Evaluate ==
    /\ pc = "evaluate"
    /\ ~LoopDone(j, model_grid)
    /\ ~EvaluatorRaises(Call, dataset.too_few)
    /\ model' = <<model_grid[j]>>
    /\ all_model_metrics' = StoreResult(all_model_metrics, ClassName(model_grid[j]),
                                        evaluate_single_model(Call))
    /\ trace' = Append(trace, [op |-> "evaluate", label |-> label_col, call |-> Call])
    /\ j' = j + 1
    /\ UNCHANGED <<args, dataset, class_names, now, pc, error, X, Y, X_val, printed,
                   all_test_metric_dfs, best_parameters, k, label_col, split, model_grid,
                   json_files, csv_files, plots, run, first>>

\* lines 101-110, the evaluator raises: nothing in main catches it
EvaluateRaises ==
    /\ pc = "evaluate"
    /\ ~LoopDone(j, model_grid)
    /\ EvaluatorRaises(Call, dataset.too_few)
    /\ model' = <<model_grid[j]>>
    /\ trace' = Append(trace, [op |-> "raise", label |-> label_col, call |-> Call])
    /\ pc' = "crashed"
    /\ error' = "BalancingError"
    /\ UNCHANGED <<args, dataset, class_names, now, X, Y, X_val, printed,
                   all_test_metric_dfs, best_parameters, k, label_col, split, model_grid,
                   j, all_model_metrics, json_files, csv_files, plots, run, first>>

\* lines 112-131: the per-metric data of the label, the boxplots, the JSON
\* record and the summary plots.  With an empty grid line 115 reads `model`
\* (never bound) and the run ends there.
Aggregate ==
    /\ pc = "evaluate"
    /\ LoopDone(j, model_grid)
    /\ IF model = <<>>
       THEN /\ pc' = "crashed"
            /\ error' = "UnboundLocalError"
            /\ UNCHANGED <<json_files, plots, trace>>
       ELSE LET names == DOMAIN all_model_metrics.vals[ClassName(model[1])].val_metrics
                data  == JsonMetricData(all_model_metrics, names)
            IN  /\ json_files' = [l \in DOMAIN json_files \cup {label_col} |->
                                     IF l = label_col THEN data ELSE json_files[l]]
                /\ plots' = Append(plots,
                               [label |-> label_col,
                                boxplot |-> [m \in names \ {"confusion_matrix"} |-> data[m].keys],
                                summary |-> all_model_metrics.keys])
                /\ trace' = Append(trace, [op |-> "aggregate", label |-> label_col])
                /\ pc' = "save"
                /\ error' = error
    /\ UNCHANGED <<args, dataset, class_names, now, X, Y, X_val, printed,
                   all_test_metric_dfs, best_parameters, k, label_col, split, model_grid,
                   j, model, all_model_metrics, csv_files, run, first>>

\* lines 133-141: the label's test values go into the frames and every frame
\* is written to its CSV file
SaveResults ==
    /\ pc = "save"
    /\ all_test_metric_dfs' = SaveResultsInDF(all_test_metric_dfs, all_model_metrics, label_col)
    /\ csv_files' = all_test_metric_dfs'
    /\ trace' = Append(trace, [op |-> "csv", label |-> label_col])
    /\ k' = k + 1
    /\ pc' = IF k < Len(Y) THEN "label" ELSE "done"
    /\ UNCHANGED <<args, dataset, class_names, now, error, X, Y, X_val, printed,
                   best_parameters, label_col, split, model_grid, j, model,
                   all_model_metrics, json_files, plots, run, first>>

Next == Setup \/ Reconcile \/ Header \/ BeginLabel \/ Evaluate \/ EvaluateRaises
        \/ Aggregate \/ SaveResults

Spec == Init /\ [][Next]_vars

\* A second run of the same command line on the same data, started when the
\* first has ended; the clock has moved on or not.
Restart ==
    /\ run = 1
    /\ pc \in {"done", "aborted", "crashed"}
    /\ first' = [pc |-> pc, trace |-> trace, csv_files |-> csv_files]
    /\ run' = 2
    /\ now' \in Times
    /\ args' = [args EXCEPT !.out_dir = None]
    /\ pc' = "setup" /\ error' = None
    /\ X' = {} /\ Y' = <<>> /\ X_val' = {}
    /\ printed' = <<>>
    /\ all_test_metric_dfs' = <<>>
    /\ best_parameters' = <<>>
    /\ k' = 0 /\ label_col' = <<>>
    /\ split' = None
    /\ model_grid' = <<>> /\ j' = 0 /\ model' = <<>>
    /\ all_model_metrics' = EmptyDict
    /\ json_files' = <<>> /\ csv_files' = <<>>
    /\ plots' = <<>>
    /\ trace' = <<>>
    /\ UNCHANGED <<dataset, class_names>>

\* The repeated run is checked with every seed, on the datasets whose training
\* matrix has every feature.
InitRerun == Inputs /\ dataset.X = Features

NextRerun == Next \/ Restart

SpecRerun == InitRerun /\ [][NextRerun]_vars

\* ------------------------------------------------------------------- claims

Terminal == {"done", "aborted", "crashed"}

\* The positions of the evaluator's calls in the trace.
EvaluatorCalls(t) == { i \in 1..Len(t) : t[i].op \in {"evaluate", "raise"} }

\* The positions of the calls that returned, and of the CSV writes.
Returned(t) == { i \in 1..Len(t) : t[i].op = "evaluate" }
Persisted(t) == { i \in 1..Len(t) : t[i].op = "csv" }

\* C1: at every call of the single-model evaluator, in internal-split and in
\* external-validation mode, for every label, X_train and X_test have the
\* same feature column set.
C1_TrainTestColumnsEqual ==
    \A i \in EvaluatorCalls(trace) :
        trace[i].call.X_train.columns = trace[i].call.X_test.columns

\* C1's case: an external set with a column of its own, and the evaluator called.
C1_Witness ==
    /\ args.external_testset
    /\ dataset.X_val \ dataset.X # {}
    /\ Returned(trace) # {}

\* C2: in external-validation mode, when some training column is absent from
\* the external set, the run is aborted by the assertion, and then (and ever
\* after) no trial header has been written, no label processed, no candidate
\* evaluated and no CSV or JSON file written.
C2_SchemaMismatchAborts ==
    ( /\ args.external_testset
      /\ pc \notin {"setup", "reconcile"}
      /\ (dataset.X_val \cap dataset.X) # dataset.X )
    => /\ pc = "aborted"
       /\ error = "AssertionError"
       /\ best_parameters = <<>>
       /\ trace = <<>>
       /\ k = 0
       /\ all_model_metrics = EmptyDict
       /\ DOMAIN csv_files = {}
       /\ DOMAIN json_files = {}

\* C2's case: the assertion has failed after the extra columns were dropped.
C2_Witness ==
    /\ pc = "aborted"
    /\ printed # <<>>
    /\ dataset.X \ dataset.X_val # {}

\* C9: in external-validation mode the columns removed from the external
\* matrix are exactly those it has and training has not, the warning lists
\* exactly them, no shared column is removed, and when every training column
\* is in the external set the run is not aborted.
C9_ExactlyExtraColumnsDropped ==
    (args.external_testset /\ pc \notin {"setup", "reconcile"})
    => LET extra == { c \in dataset.X_val : c \notin dataset.X }
       IN  /\ printed = <<extra>>
           /\ dataset.X_val \ X_val = extra
           /\ \A c \in dataset.X_val : c \in dataset.X => c \in X_val
           /\ dataset.X \subseteq dataset.X_val => pc # "aborted" /\ error # "AssertionError"

\* C9's case: one extra column, dropped, and the run went on to evaluate.
C9_Witness ==
    /\ args.external_testset
    /\ Cardinality(dataset.X_val \ dataset.X) = 1
    /\ Cardinality(dataset.X_val \ X_val) = 1
    /\ Returned(trace) # {}

\* The class names of the candidates evaluated for label l so far.
EvaluatedFor(l) ==
    { ClassName(trace[i].call.model) : i \in { h \in Returned(trace) : trace[h].label = l } }

NonConfusionMetrics == Range(all_classification_metrics_list) \ {"confusion_matrix"}

\* C5: in a label's aggregated record (the JSON record and the boxplot
\* tables, the confusion matrix entry included) every metric holds the same
\* set of model names: one entry for each model evaluated for the label.
C5_SameModelsUnderEveryMetric ==
    /\ \A l \in DOMAIN json_files :
         /\ DOMAIN json_files[l] = Range(all_classification_metrics_list)
         /\ \A m \in DOMAIN json_files[l] :
              /\ NoDup(json_files[l][m].keys)
              /\ DictKeys(json_files[l][m]) = EvaluatedFor(l)
              /\ DOMAIN json_files[l][m].vals = EvaluatedFor(l)
    /\ \A i \in 1..Len(plots) :
         /\ DOMAIN plots[i].boxplot = NonConfusionMetrics
         /\ \A m \in DOMAIN plots[i].boxplot :
              /\ NoDup(plots[i].boxplot[m])
              /\ Range(plots[i].boxplot[m]) = EvaluatedFor(plots[i].label)

\* C5's case: a label aggregated over at least two models.
C5_Witness ==
    \E l \in DOMAIN json_files :
        Cardinality(DictKeys(json_files[l]["confusion_matrix"])) >= 2

\* The position in the trace of the last returned call for label l of a
\* candidate of class name n.
LastCall(t, l, n) ==
    CHOOSE i \in Returned(t) :
        /\ t[i].label = l /\ ClassName(t[i].call.model) = n
        /\ \A h \in Returned(t) :
             (t[h].label = l /\ ClassName(t[h].call.model) = n) => h <= i

\* C10: the per-label result collection is empty when a label's candidate
\* loop starts; it holds one entry per distinct class name among the
\* candidates evaluated for the label, each the result of the last such
\* candidate for this label (nothing of an earlier label); the JSON record and
\* the tables hold one row per name, with the later candidate's values.
C10_OneEntryPerClassName ==
    LET seen  == 1..(j - 1)
        names == { ClassName(model_grid[i]) : i \in seen }
    IN  /\ (pc = "evaluate" /\ j = 1) => all_model_metrics = EmptyDict
        /\ DictKeys(all_model_metrics) = names
        /\ Len(all_model_metrics.keys) = Cardinality(names)
        /\ \A n \in names :
             LET last == CHOOSE i \in seen :
                            /\ ClassName(model_grid[i]) = n
                            /\ \A h \in seen : ClassName(model_grid[h]) = n => h <= i
                 e    == trace[LastCall(trace, label_col, n)]
             IN  /\ e.call.model = model_grid[last]
                 /\ e.call.y_train.label = label_col
                 /\ all_model_metrics.vals[n] = evaluate_single_model(e.call)
                 /\ \A m \in NonConfusionMetrics :
                      /\ label_col \in DOMAIN json_files =>
                           json_files[label_col][m].vals[n][2]
                             = evaluate_single_model(e.call).test_metrics[m]
                      /\ (pc \in {"label", "done"} /\ k > 1) =>
                           /\ NoDup(csv_files[m].index)
                           /\ csv_files[m].at[<<n, ColumnOf(label_col)>>]
                                = evaluate_single_model(e.call).test_metrics[m]

\* C10's case: a finished run over two labels whose catalog names a class twice.
C10_Witness ==
    /\ pc = "done"
    /\ Len(Y) >= 2
    /\ ~NoDup(class_names)

\* The step the i-th entry of the trace of a run over labels ys and m
\* candidates has to be: the header, then for each label in column order its
\* split, its m evaluations in catalog order, its aggregation and its CSV write.
ExpectedStep(i, ys, m) ==
    IF i = 1 THEN <<"header">>
    ELSE LET q == (i - 2) \div (m + 3)
             r == (i - 2) % (m + 3)
         IN  IF r = 0 THEN <<"split", ys[q + 1]>>
             ELSE IF r <= m THEN <<"evaluate", ys[q + 1], r>>
             ELSE IF r = m + 1 THEN <<"aggregate", ys[q + 1]>>
             ELSE <<"csv", ys[q + 1]>>

StepOf(e) ==
    IF e.op = "header" THEN <<"header">>
    ELSE IF e.op \in {"evaluate", "raise"} THEN <<"evaluate", e.label, e.call.model.pos>>
    ELSE <<e.op, e.label>>

\* C8: the run is sequential and ordered: labels in column order; per label
\* the split first, then the candidates one by one in catalog order, then the
\* aggregation, then the CSV write, all before the next label's first step.
C8_SequentialOrder ==
    /\ Len(trace) <= 1 + Len(dataset.Y) * (Len(class_names) + 3)
    /\ \A i \in 1..Len(trace) :
         /\ StepOf(trace[i]) = ExpectedStep(i, dataset.Y, Len(class_names))
         /\ trace[i].op \in {"evaluate", "raise"} =>
              trace[i].call.model.cls = class_names[trace[i].call.model.pos]
    /\ pc = "done" => Len(trace) = 1 + Len(dataset.Y) * (Len(class_names) + 3)

\* C8's case: a finished run over two labels and at least two candidates.
C8_Witness ==
    /\ pc = "done"
    /\ Len(Y) >= 2
    /\ Len(class_names) >= 2

\* The labels' columns and the catalog's names, as the tables key them.
LabelColumns == { ColumnOf(l) : l \in Range(dataset.Y) }
ModelNames == Range(class_names)

PersistedLabels == { trace[i].label : i \in Persisted(trace) }

LastPersistedCall(n, c) ==
    CHOOSE i \in Returned(trace) :
        LET hit(h) == /\ ClassName(trace[h].call.model) = n
                      /\ ColumnOf(trace[h].label) = c
                      /\ trace[h].label \in PersistedLabels
        IN  hit(i) /\ \A h \in Returned(trace) : hit(h) => h <= i

C6_BalancingFailureSkipped ==
    (\E i \in 1..Len(trace) : trace[i].op = "raise") => pc # "crashed"

\* An entry of the trace without the output directory handed to the evaluator.
WithoutOutDir(e) ==
    IF e.op \in {"evaluate", "raise"} THEN [e EXCEPT !.call.out_dir = None] ELSE e

\* The seed is the one handed to the split, the catalog and the evaluator.
SeedThreaded ==
    \A i \in EvaluatorCalls(trace) :
        /\ trace[i].call.seed = args.seed
        /\ trace[i].call.model.random_state = args.seed
        /\ ~args.external_testset =>
             /\ trace[i].call.X_train.rows[3] = args.seed
             /\ trace[i].call.X_test.rows[3] = args.seed

\* C7 as stated: the seed is passed to the split, the catalog and every
\* evaluator call, and a second run with the same seed and inputs makes the
\* same evaluator calls with the same arguments and writes the same tables.
C7_AsStated ==
    /\ SeedThreaded
    /\ run = 2 =>
         /\ Len(trace) <= Len(first.trace)
         /\ \A i \in 1..Len(trace) : trace[i] = first.trace[i]
         /\ pc \in Terminal =>
              /\ pc = first.pc
              /\ Len(trace) = Len(first.trace)
              /\ DOMAIN csv_files = DOMAIN first.csv_files
              /\ \A m \in DOMAIN csv_files : csv_files[m] = first.csv_files[m]

\* C7, amended: the same, for every argument of the evaluator but the output
\* directory, whose name holds the time the run started.
C7_SameButOutDir ==
    /\ SeedThreaded
    /\ run = 2 =>
         /\ Len(trace) <= Len(first.trace)
         /\ \A i \in 1..Len(trace) : WithoutOutDir(trace[i]) = WithoutOutDir(first.trace[i])
         /\ pc \in Terminal =>
              /\ pc = first.pc
              /\ Len(trace) = Len(first.trace)
              /\ DOMAIN csv_files = DOMAIN first.csv_files
              /\ \A m \in DOMAIN csv_files : csv_files[m] = first.csv_files[m]

\* C7's case: a second run, started at another time, finished with tables.
C7_Witness ==
    /\ run = 2
    /\ pc = "done"
    /\ now # 1
    /\ Returned(trace) # {}
    /\ ~args.external_testset

====
